---- MODULE Spec2Model ----
(***************************************************************************)
(* A model of the embedded-eventloop crates: the bounded containers        *)
(* (collections.rs), the type-erased box (boxes.rs), the scoped cell       *)
(* (threadsafe.rs) and the event loop (eventloop.rs).                      *)
(*                                                                         *)
(* Option<T> is a sequence of length 0 (None) or 1 (Some(x)).              *)
(* Result<T, E> is <<"Ok", x>> or <<"Err", x>>; () is <<>>.                *)
(***************************************************************************)
EXTENDS Integers, Sequences, FiniteSets, TLC

(* ---- bounds of the model ---------------------------------------------- *)
\* SIZE of the RingBuf driven directly (SpecRing)
RingN == 3
\* SIZE of the Stack driven directly (SpecStack)
StackN == 3
\* the elements pushed into the directly driven containers are 1..MaxElem
MaxElem == 3
\* const generics of the modelled EventLoop instance
STACKBOX_SIZE == 2
BACKLOG_MAX == 2
LISTENERS_MAX == 2
\* LISTENERS_MAX of the instance whose listener chains are followed (SpecChain)
ChainListeners == 3
\* number of send calls (each gets a fresh ghost id) in one behaviour
MaxSends == 3
\* the boxes driven directly have SIZE in 0..MaxBoxSize
MaxBoxSize == 3
\* into_inner / inner calls that fail (and inner calls that succeed) per box
MaxExtracts == 2

None == <<>>
Some(x) == <<x>>
IsSome(o) == Len(o) = 1
IsNone(o) == Len(o) = 0
Unwrap(o) == o[1]

Unit == <<>>
Ok(x) == <<"Ok", x>>
Err(x) == <<"Err", x>>
IsOk(r) == r[1] = "Ok"
IsErr(r) == r[1] = "Err"

(***************************************************************************)
(* collections.rs: RingBuf                                                 *)
(***************************************************************************)
RingBuf_new(SIZE) == [buf |-> [i \in 0..(SIZE - 1) |-> None], head |-> 0, tail |-> 0]

RingBuf_SIZE(self) == Cardinality(DOMAIN self.buf)

\* push with a reserved empty slot: full as soon as head would catch up with tail
RingBuf_push_reserved(self, element) ==
    IF (self.head + 1) % RingBuf_SIZE(self) = self.tail
    THEN [self |-> self, res |-> Err(element)]
    ELSE [self |-> [self EXCEPT !.buf[self.head] = Some(element),
                                !.head = (self.head + 1) % RingBuf_SIZE(self)],
          res |-> Ok(Unit)]

\* push without the occupancy check: the slot at head is overwritten
RingBuf_push_overwrite(self, element) ==
    [self |-> [self EXCEPT !.buf[self.head] = Some(element),
                           !.head = (self.head + 1) % RingBuf_SIZE(self)],
     res |-> Ok(Unit)]

\* push that reports the failure but has already written the slot
RingBuf_push_clobber(self, element) ==
    IF IsSome(self.buf[self.head])
    THEN [self |-> [self EXCEPT !.buf[self.head] = Some(element)], res |-> Err(element)]
    ELSE [self |-> [self EXCEPT !.buf[self.head] = Some(element),
                                !.head = (self.head + 1) % RingBuf_SIZE(self)],
          res |-> Ok(Unit)]

RingBuf_push(self, element) ==
    IF IsSome(self.buf[self.head])
    THEN [self |-> self, res |-> Err(element)]
    ELSE [self |-> [self EXCEPT !.buf[self.head] = Some(element),
                                !.head = (self.head + 1) % RingBuf_SIZE(self)],
          res |-> Ok(Unit)]

\* pop that takes the most recently pushed element (the slot before head)
RingBuf_pop_newest(self) ==
    LET last == (self.head + RingBuf_SIZE(self) - 1) % RingBuf_SIZE(self) IN
    IF IsNone(self.buf[last])
    THEN [self |-> self, res |-> None]
    ELSE [self |-> [self EXCEPT !.buf[last] = None, !.head = last],
          res |-> self.buf[last]]

\* pop whose read cursor does not wrap at the end of the array
RingBuf_pop_nowrap(self) ==
    IF IsNone(self.buf[self.tail])
    THEN [self |-> self, res |-> None]
    ELSE [self |-> [self EXCEPT !.buf[self.tail] = None,
                                !.tail = IF self.tail + 1 = RingBuf_SIZE(self)
                                         THEN self.tail ELSE self.tail + 1],
          res |-> self.buf[self.tail]]

RingBuf_pop(self) ==
    IF IsNone(self.buf[self.tail])
    THEN [self |-> self, res |-> None]
    ELSE [self |-> [self EXCEPT !.buf[self.tail] = None,
                                !.tail = (self.tail + 1) % RingBuf_SIZE(self)],
          res |-> self.buf[self.tail]]

(***************************************************************************)
(* collections.rs: Stack (embedded-eventloop: [Option<T>; SIZE] + len,     *)
(* iterated by value through flatten; eventloop: [MaybeUninit<T>; SIZE] +  *)
(* len, read through the slice of the first len slots).  A slot never      *)
(* written is <<>> in both.                                                *)
(***************************************************************************)
Stack_new(SIZE) == [elements |-> [i \in 0..(SIZE - 1) |-> None], len |-> 0]

Stack_SIZE(self) == Cardinality(DOMAIN self.elements)

\* push that overwrites the last slot once the stack is full
Stack_push_overwrite(self, value) ==
    IF self.len = Stack_SIZE(self)
    THEN [self |-> [self EXCEPT !.elements[self.len - 1] = Some(value)], res |-> Err(value)]
    ELSE [self |-> [self EXCEPT !.elements[self.len] = Some(value), !.len = self.len + 1],
          res |-> Ok(Unit)]

Stack_push(self, value) ==
    IF self.len = Stack_SIZE(self)
    THEN [self |-> self, res |-> Err(value)]
    ELSE [self |-> [self EXCEPT !.elements[self.len] = Some(value), !.len = self.len + 1],
          res |-> Ok(Unit)]

RECURSIVE FlattenFrom(_, _)
FlattenFrom(elements, i) ==
    IF i \notin DOMAIN elements THEN <<>>
    ELSE elements[i] \o FlattenFrom(elements, i + 1)

\* self.elements.into_iter().flatten(): the Some slots, in array order
Stack_into_iter(self) == FlattenFrom(self.elements, 0)

\* slice::from_raw_parts(ptr, self.len): the first len slots
Stack_deref(self) == [i \in 1..self.len |-> Unwrap(self.elements[i - 1])]

(***************************************************************************)
(* boxes.rs.  A value is [type, bytes, ghost]: its TypeId and its          *)
(* bit-level representation (SizeOf(type) bytes).  ghost is not in the     *)
(* code; it records where the value comes from: seed is the registry       *)
(* position (1-based) of the listener that bootstrap registered before     *)
(* sending this value (0 for any other value).  A box carries the          *)
(* ghost along, and a ghost seq of its own: the number of successful       *)
(* backlog pushes up to and including its own, 0 while it is in no         *)
(* backlog.                                                                *)
(***************************************************************************)
EventTypes == {"U8", "U16"}
TypeIds == EventTypes \cup {"Big"}
\* the types boxed on their own: the event types and a zero-sized type
BoxTypes == TypeIds \cup {"Zst"}

\* eventloop.rs, line 12: mem::size_of::<fn()>(), in the unit of SizeOf
FPTR_SIZE == 1

\* mem::size_of::<T>(); "Big" is a type that never fits the box of the event loop,
\* "Zst" has no bytes, a function pointer type has FPTR_SIZE
SizeOf(T) == CASE T = "U8" -> 1 [] T = "U16" -> 2 [] T = "Big" -> STACKBOX_SIZE + 1
               [] T = "Zst" -> 0
               [] T \in {"fn(U8)", "fn(U16)", "fn(Big)"} -> FPTR_SIZE

\* the values of type T that the producers send
ValuesOf(T) == CASE T = "U8" -> {<<0>>}
                 [] T = "U16" -> {<<0, 1>>}
                 [] T = "Big" -> {[i \in 1..(STACKBOX_SIZE + 1) |-> 1]}

value_into_bytes(value, SIZE) ==
    [type_id |-> value.type,
     bytes |-> [i \in 1..SIZE |-> IF i <= SizeOf(value.type) THEN value.bytes[i] ELSE 0]]

\* bytes_into_value that copies the whole array instead of size_of::<T>() bytes
bytes_into_value_whole(type_id, bytes, ghost) ==
    [type |-> type_id, bytes |-> bytes, ghost |-> ghost]

bytes_into_value(type_id, bytes, ghost) ==
    [type |-> type_id, bytes |-> SubSeq(bytes, 1, SizeOf(type_id)), ghost |-> ghost]

Value(T, bytes, seed) == [type |-> T, bytes |-> bytes, ghost |-> [seed |-> seed]]

\* Box::new with the size check off by one: a value of exactly SIZE bytes is refused
Box_new_strict(value, SIZE) ==
    IF SizeOf(value.type) >= SIZE
    THEN Err(value)
    ELSE LET tb == value_into_bytes(value, SIZE) IN
         Ok([type_id |-> tb.type_id, bytes |-> tb.bytes, drop |-> Some(value.type),
             ghost |-> value.ghost, seq |-> 0])

\* Box::new; drop is Some(T) for Some(Self::drop_impl::<T>)
Box_new(value, SIZE) ==
    IF SizeOf(value.type) > SIZE
    THEN Err(value)
    ELSE LET tb == value_into_bytes(value, SIZE) IN
         Ok([type_id |-> tb.type_id, bytes |-> tb.bytes, drop |-> Some(value.type),
             ghost |-> value.ghost, seq |-> 0])

Box_inner_type_id(self) == self.type_id

\* into_inner that removes the destructor before it has checked the type
Box_into_inner_cleared(self, T) ==
    IF T # self.type_id
    THEN Err([self EXCEPT !.drop = None])
    ELSE Ok(bytes_into_value(self.type_id, self.bytes, self.ghost))

\* Box::into_inner::<T>
Box_into_inner(self, T) ==
    IF T # self.type_id
    THEN Err(self)
    ELSE Ok(bytes_into_value(self.type_id, self.bytes, self.ghost))

\* into_inner that moves the value out and leaves the destructor in place
Box_into_inner_self_keep(self, T) ==
    IF T # self.type_id THEN None ELSE Some(self)

\* Box::into_inner::<T>, lines 46-54: the parameter `self` as it goes out of scope
\* when into_inner returns: moved into Err(self) (nothing left to drop) or, the
\* value taken, still owned with `self.drop = None`
Box_into_inner_self(self, T) ==
    IF T # self.type_id THEN None ELSE Some([self EXCEPT !.drop = None])

\* Box::drop_impl::<T>(type_id, bytes): recover the value and drop it; the result is
\* the value whose destructor ran
drop_impl(T, type_id, bytes) == bytes_into_value(type_id, bytes, Unit)

\* a drop that forgets the value: the destructor is taken out and not called
Box_drop_forget(self) == [self |-> [self EXCEPT !.drop = None], ran |-> <<>>]

\* Drop for Box: self.drop.take(), and the destructor if there was one; ran is
\* the sequence of the values whose destructor ran
Box_drop(self) ==
    [self |-> [self EXCEPT !.drop = None],
     ran |-> IF IsSome(self.drop)
             THEN <<drop_impl(Unwrap(self.drop), self.type_id, self.bytes)>>
             ELSE <<>>]

(* A callback is a function pointer: its value is the address of the       *)
(* function, here the name of its behaviour; its type is fn(T)->Option<T>. *)
FnType(T) == CASE T = "U8" -> "fn(U8)" [] T = "U16" -> "fn(U16)" [] T = "Big" -> "fn(Big)"
Callbacks == {"stop", "flip", "emit"}
\* the listener functions of the modelled program, as <<T, callback>>
ListenerFns == {<<"U8", "stop">>, <<"U8", "flip">>, <<"U16", "emit">>}

\* CopyBox::new; a CopyBox is [type_id, bytes], it has no destructor
CopyBox_new(value, SIZE) ==
    IF SizeOf(value.type) > SIZE
    THEN None
    ELSE Some(value_into_bytes(value, SIZE))

\* CopyBox::inner::<T>; the box stays as it is
CopyBox_inner(self, T) ==
    IF T # self.type_id
    THEN None
    ELSE LET value == bytes_into_value(self.type_id, self.bytes, Unit) IN
         Some([type |-> value.type, bytes |-> value.bytes])

FnPtr(T, cb) == [type |-> FnType(T), bytes |-> <<cb>>]

(***************************************************************************)
(* The listener callbacks (user code).  "stop" consumes the event and      *)
(* returns None; "flip" returns Some(e') with every bit of e inverted, so  *)
(* a continuation is told apart from the event it came from; "emit" sends  *)
(* a new event of the same type and returns None (handled in the loop).    *)
(***************************************************************************)
Flip(bytes) == [i \in 1..Len(bytes) |-> 1 - bytes[i]]

Callback(cb, event) ==
    CASE cb = "stop" -> None
      [] cb = "flip" -> Some([event EXCEPT !.bytes = Flip(event.bytes)])
      [] cb = "emit" -> None

(***************************************************************************)
(* eventloop.rs: EventLoop::caller::<T>.  ret is the returned              *)
(* Option<Box>, panic is TRUE when one of the expect/unreachable calls     *)
(* fires; cb, arg and out tell which callback ran, the value it was handed *)
(* and the Option<T> it returned.                                          *)
(***************************************************************************)
caller(T, boxed_event, callback) ==
    LET event == Box_into_inner(boxed_event, T)
        cbv == CopyBox_inner(callback, FnType(T))
    IN  IF IsErr(event) \/ IsNone(cbv)
        THEN [panic |-> TRUE, ret |-> None, arg |-> None, cb |-> None, out |-> None]
        ELSE LET cb == Unwrap(cbv).bytes[1]
                 r == Callback(cb, event[2])
             IN  IF IsNone(r)
                 THEN [panic |-> FALSE, ret |-> None, arg |-> Some(event[2]), cb |-> Some(cb),
                       out |-> r]
                 ELSE LET b == Box_new(Unwrap(r), STACKBOX_SIZE) IN
                      [panic |-> IsErr(b), ret |-> IF IsOk(b) THEN Some(b[2]) ELSE None,
                       arg |-> Some(event[2]), cb |-> Some(cb), out |-> r]

\* a record whose caller is the instance of one fixed type
EventListener_miswired(T, cb) ==
    [type_id |-> T, callback_box |-> Unwrap(CopyBox_new(FnPtr(T, cb), FPTR_SIZE)),
     caller |-> "U8"]

\* the record built by EventLoop::listen
EventListener(T, cb) ==
    [type_id |-> T, callback_box |-> Unwrap(CopyBox_new(FnPtr(T, cb), FPTR_SIZE)), caller |-> T]

(***************************************************************************)
(* State.                                                                  *)
(***************************************************************************)
VARIABLES
    events,           \* EventLoop.events: the backlog RingBuf of event boxes
    listeners,        \* EventLoop.listeners: the registry Stack of EventListener
    held,             \* per context: the cells whose scope() closure it is running
    op,               \* per context: the listen/bootstrap/send call in progress:
                      \* its position pc, its arguments event and cb, and res, the
                      \* result of its push or (at pc = "return") the Err it returns
    pc,               \* position of enter()
    maybe_event_box,  \* local of enter()
    iter,             \* local of enter(): the by-value iterator `listeners`
    raised,           \* number of _runtime_sendevent calls so far
    panicked,         \* an expect/unreachable fired
    nsends,           \* ghost: number of send/bootstrap calls that took a value so far
    npushed,          \* ghost: number of successful pushes into the backlog
    npopped,          \* ghost: number of successful pops from the backlog
    orig,             \* ghost: the box popped for the current dispatch pass
    calls,            \* ghost: the listener invocations of the current pass, each
                      \* [idx: registry position, cb, arg: bytes handed over,
                      \*  out: Some(bytes returned) or None]
    rb, aq, rres, ares,   \* a RingBuf driven directly, and the abstract queue
    st, sq, sres,         \* a Stack driven directly, and the abstract list
    bsize,            \* SIZE of the boxes driven directly
    bval,             \* the value last given to Box::new
    bbox,             \* the Box alive, if any
    bres,             \* the last Box operation: [op, T, res]
    breleased,        \* ghost: number of destructor runs on bval
    bout,             \* ghost: number of times bval was handed (back) to the caller
    bfails,           \* ghost: number of into_inner calls on bbox that returned Err
    cval,             \* the value last given to CopyBox::new
    cbox,             \* the CopyBox alive, if any
    cres,             \* the last CopyBox operation: [op, T, res]
    cinners,          \* ghost: [ok, fail]: the inner calls on cbox that returned
                      \* Some and None
    signal,           \* runtime: an event is pending for _runtime_waitforevent
    latch,            \* runtime: _runtime_sendevent leaves its event pending when
                      \* nobody is blocked (sev sets the event register, wfe
                      \* consumes it) or wakes only a context that is blocked
    ldrops            \* ghost: number of destructor runs (Drop for Box calling
                      \* drop_impl) in enter() since its last pop

evars == <<events, listeners, held, op, pc, maybe_event_box, iter, raised,
           panicked, nsends, npushed, npopped, orig, calls>>
rvars == <<rb, aq, rres, ares>>
svars == <<st, sq, sres>>
bvars == <<bsize, bval, bbox, bres, breleased, bout, bfails, cval, cbox, cres, cinners>>
wvars == <<signal, latch>>
dvars == <<ldrops>>
vars == <<evars, rvars, svars, bvars, wvars, dvars>>

Producers == {"main", "irq"}
Contexts == Producers \cup {"loop"}

NoResult == <<"None", Unit>>
Idle == [pc |-> "idle", kind |-> "none", event |-> None, cb |-> None, res |-> None]

\* EventLoop::<STACKBOX_SIZE, B, L>::new(), before enter() has done anything
EventLoop_new(B, L) ==
    /\ events = RingBuf_new(B)
    /\ listeners = Stack_new(L)
    /\ held = [c \in Contexts |-> {}]
    /\ op = [c \in Contexts |-> Idle]
    /\ pc = "pop"
    /\ maybe_event_box = None
    /\ iter = [items |-> <<>>, pos |-> 0]
    /\ raised = 0
    /\ panicked = FALSE
    /\ nsends = 0
    /\ npushed = 0
    /\ npopped = 0
    /\ orig = None
    /\ calls = <<>>
    /\ ldrops = 0

InitRing ==
    /\ rb = RingBuf_new(RingN)
    /\ aq = <<>>
    /\ rres = [op |-> "new", arg |-> 0, res |-> None]
    /\ ares = [op |-> "new", arg |-> 0, res |-> None]

InitStack ==
    /\ st = Stack_new(StackN)
    /\ sq = <<>>
    /\ sres = NoResult

\* no box made yet; the boxes driven directly have SIZE bytes
InitBox(SIZE) ==
    /\ bsize = SIZE
    /\ bval = None
    /\ bbox = None
    /\ bres = [op |-> "none", T |-> "none", res |-> None]
    /\ breleased = 0
    /\ bout = 0
    /\ bfails = 0
    /\ cval = None
    /\ cbox = None
    /\ cres = [op |-> "none", T |-> "none", res |-> None]
    /\ cinners = [ok |-> 0, fail |-> 0]

\* no event pending; the runtime of the rp2040 crate: wfe and sev
InitRuntime ==
    /\ signal = FALSE
    /\ latch = TRUE

Init ==
    /\ EventLoop_new(BACKLOG_MAX, LISTENERS_MAX) /\ InitRing /\ InitStack
    /\ InitBox(STACKBOX_SIZE)
    /\ InitRuntime

(***************************************************************************)
(* threadsafe.rs: ThreadSafeCell::scope runs its closure through           *)
(* _runtime_threadsafe ("ensures that code is run exclusively, without     *)
(* being subject to race conditions or interrupts"; critical_section::with *)
(* on the rp2040): while one context is inside, no other context enters;   *)
(* code outside a scope (on the other core) goes on.  A scoped access is   *)
(* two steps: enter and run the closure; leave.                            *)
(***************************************************************************)
scope_free(c) == \A d \in Contexts \ {c} : held[d] = {}
scope_enter(c, cell) == held' = [held EXCEPT ![c] = @ \cup {cell}]
\* a scope whose critical section is not left when the closure returns
scope_leave_leak(c, cell) == held' = held

scope_leave(c, cell) == held' = [held EXCEPT ![c] = @ \ {cell}]

(***************************************************************************)
(* eventloop.rs: EventLoop::listen, ::bootstrap, ::send                    *)
(***************************************************************************)
\* a call that returns Err(x) passes through pc = "return" with res = Some(Err(x));
\* a call that returns Ok(()) goes back to idle at once
returning(c, x) == [op[c] EXCEPT !.pc = "return", !.res = Some(Err(x))]

\* listen, lines 54-59: build the record and push it under the registry cell
listen_push(c, kind, T, cb, event) ==
    /\ ~panicked
    /\ scope_free(c)
    /\ LET r == Stack_push(listeners, EventListener(T, cb)) IN
        /\ listeners' = r.self
        /\ op' = [op EXCEPT ![c] =
                    [pc |-> "listen_exit", kind |-> kind, cb |-> Some(FnPtr(T, cb)),
                     res |-> Some(r.res),
                     event |-> IF IsSome(event) /\ IsOk(r.res)
                               THEN Some([Unwrap(event) EXCEPT !.ghost.seed = r.self.len])
                               ELSE event]]
    /\ scope_enter(c, "listeners")

Listen(c, T, cb) ==
    /\ op[c].pc = "idle"
    /\ listen_push(c, "listen", T, cb, None)
    /\ UNCHANGED <<events, pc, maybe_event_box, iter, raised, panicked, nsends,
                   npushed, npopped, orig, calls>>
    /\ UNCHANGED <<rvars, svars, bvars, wvars, dvars>>

Bootstrap(c, T, bytes, cb) ==
    /\ op[c].pc = "idle"
    /\ nsends < MaxSends
    /\ listen_push(c, "bootstrap", T, cb, Some(Value(T, bytes, 0)))
    /\ nsends' = nsends + 1
    /\ UNCHANGED <<events, pc, maybe_event_box, iter, raised, panicked, npushed,
                   npopped, orig, calls>>
    /\ UNCHANGED <<rvars, svars, bvars, wvars, dvars>>

\* a bootstrap that goes on to send whatever listen returned
ListenExit_send_anyway(c) ==
    /\ op[c].pc = "listen_exit"
    /\ scope_leave(c, "listeners")
    /\ IF op[c].kind = "listen"
       THEN IF IsErr(Unwrap(op[c].res))
            THEN op' = [op EXCEPT ![c] = returning(c, Unwrap(op[c].cb))]
            ELSE op' = [op EXCEPT ![c] = Idle]
       ELSE op' = [op EXCEPT ![c] = [@ EXCEPT !.pc = "send", !.res = None]]
    /\ UNCHANGED <<events, listeners, pc, maybe_event_box, iter, raised, panicked,
                   nsends, npushed, npopped, orig, calls>>
    /\ UNCHANGED <<rvars, svars, bvars, wvars, dvars>>

\* listen, lines 59-62, and bootstrap, lines 78-83
ListenExit(c) ==
    /\ op[c].pc = "listen_exit"
    /\ scope_leave(c, "listeners")
    /\ IF IsErr(Unwrap(op[c].res))
       THEN op' = [op EXCEPT ![c] = returning(c, IF op[c].kind = "listen"
                                                 THEN Unwrap(op[c].cb)
                                                 ELSE Unwrap(op[c].event))]
       ELSE IF op[c].kind = "listen"
            THEN op' = [op EXCEPT ![c] = Idle]
            ELSE op' = [op EXCEPT ![c] = [@ EXCEPT !.pc = "send", !.res = None]]
    /\ UNCHANGED <<events, listeners, pc, maybe_event_box, iter, raised, panicked,
                   nsends, npushed, npopped, orig, calls>>
    /\ UNCHANGED <<rvars, svars, bvars, wvars, dvars>>

\* send, lines 91-92: box the event (a value that does not fit comes back at
\* once), push the box under the backlog cell
send_push(c, kind, event) ==
    /\ ~panicked
    /\ LET b == Box_new(event, STACKBOX_SIZE) IN
       IF IsErr(b)
       THEN /\ op' = [op EXCEPT ![c] = [pc |-> "return", kind |-> kind,
                                        event |-> Some(event), cb |-> op[c].cb,
                                        res |-> Some(Err(b[2]))]]
            /\ UNCHANGED <<events, held, npushed>>
       ELSE /\ scope_free(c)
            /\ LET r == RingBuf_push(events, [b[2] EXCEPT !.seq = npushed + 1]) IN
                /\ events' = r.self
                /\ op' = [op EXCEPT ![c] = [pc |-> "send_exit", kind |-> kind,
                                            event |-> Some(event), cb |-> op[c].cb,
                                            res |-> Some(r.res)]]
                /\ npushed' = IF IsOk(r.res) THEN npushed + 1 ELSE npushed
            /\ scope_enter(c, "events")

Send(c, T, bytes) ==
    /\ op[c].pc = "idle"
    /\ nsends < MaxSends
    /\ send_push(c, "send", Value(T, bytes, 0))
    /\ nsends' = nsends + 1
    /\ UNCHANGED <<listeners, pc, maybe_event_box, iter, raised, panicked, npopped,
                   orig, calls>>
    /\ UNCHANGED <<rvars, svars, bvars, wvars, dvars>>

\* the send called by bootstrap (line 83) or by a listener
SendCalled(c) ==
    /\ op[c].pc = "send"
    /\ send_push(c, op[c].kind, Unwrap(op[c].event))
    /\ UNCHANGED <<listeners, pc, maybe_event_box, iter, raised, panicked, nsends,
                   npopped, orig, calls>>
    /\ UNCHANGED <<rvars, svars, bvars, wvars, dvars>>

\* a send that raises the wake signal before it looks at the result of the push
SendExit_raise_first(c) ==
    /\ op[c].pc = "send_exit"
    /\ scope_leave(c, "events")
    /\ op' = [op EXCEPT ![c] = [@ EXCEPT !.pc = "raise", !.res = None]]
    /\ UNCHANGED <<events, listeners, pc, maybe_event_box, iter, raised, nsends,
                   npushed, npopped, orig, calls, panicked>>
    /\ UNCHANGED <<rvars, svars, bvars, wvars, dvars>>

\* send, lines 92-96: the scope ends, then the result of the push is matched
SendExit(c) ==
    /\ op[c].pc = "send_exit"
    /\ scope_leave(c, "events")
    /\ LET r == Unwrap(op[c].res) IN
       IF IsErr(r)
       THEN LET v == Box_into_inner(r[2], Unwrap(op[c].event).type) IN
            /\ panicked' = IsErr(v)
            /\ op' = [op EXCEPT ![c] = IF IsOk(v) THEN returning(c, v[2]) ELSE Idle]
       ELSE /\ op' = [op EXCEPT ![c] = [@ EXCEPT !.pc = "raise", !.res = None]]
            /\ UNCHANGED panicked
    /\ UNCHANGED <<events, listeners, pc, maybe_event_box, iter, raised, nsends,
                   npushed, npopped, orig, calls>>
    /\ UNCHANGED <<rvars, svars, bvars, wvars, dvars>>

\* send, lines 97-98: _runtime_sendevent, then Ok(())
send_raise(c) ==
    /\ op[c].pc = "raise"
    /\ raised' = raised + 1
    /\ op' = [op EXCEPT ![c] = Idle]
    /\ UNCHANGED <<events, listeners, held, pc, maybe_event_box, iter, panicked,
                   nsends, npushed, npopped, orig, calls>>
    /\ UNCHANGED <<rvars, svars, bvars, dvars>>

\* with a wait that may return at any time the pending event decides nothing
SendRaise(c) ==
    /\ send_raise(c)
    /\ UNCHANGED wvars

\* a send that returns Ok(()) without _runtime_sendevent
SendEvent_none(c) ==
    /\ send_raise(c)
    /\ UNCHANGED wvars

\* send, lines 97-98, with the runtime's event: sev leaves it pending (latch);
\* a runtime without latch wakes a context blocked in the wait and no other
SendEvent(c) ==
    /\ send_raise(c)
    /\ signal' = (signal \/ latch \/ pc = "blocked")
    /\ UNCHANGED latch

\* listen, line 60, bootstrap, line 79, send, lines 91 and 93: return Err(x)
Return(c) ==
    /\ op[c].pc = "return"
    /\ op' = [op EXCEPT ![c] = Idle]
    /\ UNCHANGED <<events, listeners, held, pc, maybe_event_box, iter, raised, panicked,
                   nsends, npushed, npopped, orig, calls>>
    /\ UNCHANGED <<rvars, svars, bvars, wvars, dvars>>

(***************************************************************************)
(* eventloop.rs: EventLoop::enter                                          *)
(***************************************************************************)
\* line 105: self.events.scope(|events| events.pop())
Pop ==
    /\ pc = "pop"
    /\ ~panicked
    /\ scope_free("loop")
    /\ LET r == RingBuf_pop(events) IN
        /\ events' = r.self
        /\ maybe_event_box' = r.res
        /\ npopped' = IF IsSome(r.res) THEN npopped + 1 ELSE npopped
        /\ orig' = r.res
    /\ scope_enter("loop", "events")
    /\ pc' = "pop_exit"
    /\ ldrops' = 0
    /\ UNCHANGED <<listeners, op, iter, raised, panicked, nsends, npushed, calls>>
    /\ UNCHANGED <<rvars, svars, bvars, wvars>>

\* lines 105-110: leave the scope; is_none() decides between waiting and dispatching
PopExit ==
    /\ pc = "pop_exit"
    /\ scope_leave("loop", "events")
    /\ pc' = IF IsNone(maybe_event_box) THEN "wait" ELSE "snapshot"
    /\ UNCHANGED <<events, listeners, op, maybe_event_box, iter, raised, panicked,
                   nsends, npushed, npopped, orig, calls>>
    /\ UNCHANGED <<rvars, svars, bvars, wvars, dvars>>

\* a loop that takes the return of _runtime_waitforevent for an event and goes on
\* to dispatch without popping again
WaitForEvent_norecheck ==
    /\ pc = "wait"
    /\ pc' = "snapshot"
    /\ UNCHANGED <<events, listeners, held, op, maybe_event_box, iter, raised,
                   panicked, nsends, npushed, npopped, orig, calls>>
    /\ UNCHANGED <<rvars, svars, bvars, wvars, dvars>>

\* lines 108-109: _runtime_waitforevent returns (it may do so spuriously); continue
WaitForEvent ==
    /\ pc = "wait"
    /\ pc' = "pop"
    /\ UNCHANGED <<events, listeners, held, op, maybe_event_box, iter, raised,
                   panicked, nsends, npushed, npopped, orig, calls>>
    /\ UNCHANGED <<rvars, svars, bvars, wvars, dvars>>

\* line 113: self.listeners.scope(|listeners| listeners.into_iter()); Stack is Copy
\* and into_iter takes self by value, so the iterator owns a copy of the registry
Snapshot ==
    /\ pc = "snapshot"
    /\ scope_free("loop")
    /\ iter' = [items |-> Stack_into_iter(listeners), pos |-> 0]
    /\ scope_enter("loop", "listeners")
    /\ pc' = "snapshot_exit"
    /\ UNCHANGED <<events, listeners, op, maybe_event_box, raised, panicked, nsends,
                   npushed, npopped, orig, calls>>
    /\ UNCHANGED <<rvars, svars, bvars, wvars, dvars>>

\* a scan that runs inside the closure of the registry's scope
SnapshotExit_scan_inside ==
    /\ pc = "snapshot_exit"
    /\ pc' = "scan"
    /\ UNCHANGED <<events, listeners, held, op, maybe_event_box, iter, raised, panicked,
                   nsends, npushed, npopped, orig, calls>>
    /\ UNCHANGED <<rvars, svars, bvars, wvars, dvars>>

\* line 113, the scope returns the iterator
SnapshotExit ==
    /\ pc = "snapshot_exit"
    /\ scope_leave("loop", "listeners")
    /\ pc' = "scan"
    /\ UNCHANGED <<events, listeners, op, maybe_event_box, iter, raised, panicked,
                   nsends, npushed, npopped, orig, calls>>
    /\ UNCHANGED <<rvars, svars, bvars, wvars, dvars>>

\* line 108, the call: enter is inside _runtime_waitforevent
WaitBlock ==
    /\ pc = "wait"
    /\ pc' = "blocked"
    /\ UNCHANGED <<events, listeners, held, op, maybe_event_box, iter, raised,
                   panicked, nsends, npushed, npopped, orig, calls>>
    /\ UNCHANGED <<rvars, svars, bvars, wvars, dvars>>

\* lines 108-109 without spurious wakes: _runtime_waitforevent returns when an event
\* is pending, and consumes it; continue
WaitWake ==
    /\ pc = "blocked"
    /\ signal
    /\ signal' = FALSE
    /\ pc' = "pop"
    /\ UNCHANGED <<events, listeners, held, op, maybe_event_box, iter, raised,
                   panicked, nsends, npushed, npopped, orig, calls>>
    /\ UNCHANGED <<rvars, svars, bvars, latch, dvars>>

\* line 115: the tuple (maybe_event_box.take(), listeners.next()) is built first, so
\* maybe_event_box is None and the iterator has advanced whatever the pattern decides
iter_has_next == iter.pos < Len(iter.items)
\* an iterator whose next() hands out the same listener again
iter_next_stuck == iter

\* an iterator that borrows the registry instead of owning a copy of it
iter_next_borrowed == [items |-> Stack_into_iter(listeners),
                       pos |-> IF iter_has_next THEN iter.pos + 1 ELSE iter.pos]

iter_next == [iter EXCEPT !.pos = IF iter_has_next THEN iter.pos + 1 ELSE iter.pos]
listener_next == iter.items[iter.pos + 1]
NoIter == [items |-> <<>>, pos |-> 0]

\* line 115, pattern fails: the while loop ends, the tuple (and a box in it) is
\* dropped, and so are the locals of this pass (the ghosts orig and calls with them)
ScanEnd ==
    /\ pc = "scan"
    /\ IsNone(maybe_event_box) \/ ~iter_has_next
    /\ maybe_event_box' = None
    /\ iter' = NoIter
    /\ orig' = None
    /\ calls' = <<>>
    /\ pc' = "pop"
    /\ ldrops' = IF IsSome(maybe_event_box)
                 THEN ldrops + Len(Box_drop(Unwrap(maybe_event_box)).ran)
                 ELSE ldrops
    /\ UNCHANGED <<events, listeners, held, op, raised, panicked, nsends, npushed,
                   npopped>>
    /\ UNCHANGED <<rvars, svars, bvars, wvars>>

\* lines 115-122 with a listener of another type: the if is not taken, event_box goes
\* out of scope at the end of the body and maybe_event_box stays as take() left it
ScanSkip ==
    /\ pc = "scan"
    /\ IsSome(maybe_event_box) /\ iter_has_next
    /\ listener_next.type_id # Box_inner_type_id(Unwrap(maybe_event_box))
    /\ maybe_event_box' = None
    /\ iter' = iter_next
    /\ ldrops' = ldrops + Len(Box_drop(Unwrap(maybe_event_box)).ran)
    /\ UNCHANGED <<events, listeners, held, op, pc, raised, panicked, nsends, npushed,
                   npopped, orig, calls>>
    /\ UNCHANGED <<rvars, svars, bvars, wvars>>

invocation == caller(listener_next.caller, Unwrap(maybe_event_box), listener_next.callback_box)
call_record == [idx |-> iter.pos + 1, cb |-> Unwrap(invocation.cb),
                arg |-> Unwrap(invocation.arg).bytes,
                out |-> IF IsSome(invocation.out)
                        THEN Some(Unwrap(invocation.out).bytes) ELSE None]

\* line 132: boxed_event.into_inner() inside caller: the destructors that run when
\* the box handed to caller goes out of scope there
caller_drops ==
    LET self == Box_into_inner_self(Unwrap(maybe_event_box), listener_next.caller) IN
    IF IsSome(self) THEN Box_drop(Unwrap(self)).ran ELSE <<>>

\* lines 115-122 with a listener of the event's type whose callback returns at once
ScanInvoke ==
    /\ pc = "scan"
    /\ IsSome(maybe_event_box) /\ iter_has_next
    /\ listener_next.type_id = Box_inner_type_id(Unwrap(maybe_event_box))
    /\ IF invocation.panic
       THEN /\ panicked' = TRUE
            /\ maybe_event_box' = None
            /\ UNCHANGED calls
       ELSE /\ invocation.cb # Some("emit")
            /\ maybe_event_box' = invocation.ret
            /\ calls' = Append(calls, call_record)
            /\ UNCHANGED panicked
    /\ iter' = iter_next
    /\ ldrops' = ldrops + Len(caller_drops)
    /\ UNCHANGED <<events, listeners, held, op, pc, raised, nsends, npushed, npopped,
                   orig>>
    /\ UNCHANGED <<rvars, svars, bvars, wvars>>

\* the same with a callback that calls send(event) with a new event of its type
\* before it returns None; once MaxSends values exist it returns None at once
ScanInvokeEmit ==
    /\ pc = "scan"
    /\ IsSome(maybe_event_box) /\ iter_has_next
    /\ listener_next.type_id = Box_inner_type_id(Unwrap(maybe_event_box))
    /\ ~invocation.panic
    /\ invocation.cb = Some("emit")
    /\ maybe_event_box' = None
    /\ calls' = Append(calls, call_record)
    /\ iter' = iter_next
    /\ pc' = "callback"
    /\ IF nsends < MaxSends
       THEN /\ op' = [op EXCEPT !["loop"] =
                        [pc |-> "send", kind |-> "send", cb |-> None, res |-> None,
                         event |-> Some(Value(listener_next.type_id, call_record.arg, 0))]]
            /\ nsends' = nsends + 1
       ELSE UNCHANGED <<op, nsends>>
    /\ ldrops' = ldrops + Len(caller_drops)
    /\ UNCHANGED <<events, listeners, held, raised, panicked, npushed, npopped, orig>>
    /\ UNCHANGED <<rvars, svars, bvars, wvars>>

\* the callback's send has returned; the callback returns None to caller and enter
CallbackReturn ==
    /\ pc = "callback"
    /\ op["loop"].pc = "idle"
    /\ pc' = "scan"
    /\ UNCHANGED <<events, listeners, held, op, maybe_event_box, iter, raised,
                   panicked, nsends, npushed, npopped, orig, calls>>
    /\ UNCHANGED <<rvars, svars, bvars, wvars, dvars>>

\* What the contexts call.  "main" is the non-interrupt code outside enter(): it
\* registers the listeners, bootstraps the periodic source and sends events of
\* every type; "irq" is an interrupt handler that sends U8 events.
SendTypes(c) == IF c = "irq" THEN {"U8"} ELSE TypeIds
BootstrapFns == {<<"U16", "emit">>}

Next ==
    \/ \E l \in ListenerFns : Listen("main", l[1], l[2])
    \/ \E l \in BootstrapFns : \E bytes \in ValuesOf(l[1]) :
          Bootstrap("main", l[1], bytes, l[2])
    \/ \E c \in Contexts : ListenExit(c)
    \/ \E c \in Producers : \E T \in SendTypes(c) : \E bytes \in ValuesOf(T) :
          Send(c, T, bytes)
    \/ \E c \in Contexts : SendCalled(c)
    \/ \E c \in Contexts : SendExit(c)
    \/ \E c \in Contexts : SendRaise(c)
    \/ \E c \in Contexts : Return(c)
    \/ Pop
    \/ PopExit
    \/ WaitForEvent
    \/ Snapshot
    \/ SnapshotExit
    \/ ScanEnd
    \/ ScanSkip
    \/ ScanInvoke
    \/ ScanInvokeEmit
    \/ CallbackReturn

Spec == Init /\ [][Next]_vars

(***************************************************************************)
(* Listeners that call into the event loop: the listener being invoked     *)
(* (between ScanInvokeEmit and CallbackReturn) also calls listen and       *)
(* bootstrap, any number of times, before it returns.                      *)
(***************************************************************************)
CallbackListen(T, cb) ==
    /\ pc = "callback"
    /\ Listen("loop", T, cb)

CallbackBootstrap(T, bytes, cb) ==
    /\ pc = "callback"
    /\ Bootstrap("loop", T, bytes, cb)

\* "main" sends the events the calling listener is registered for, the
\* interrupt sends the others
ReenterTypes(c) == IF c = "main" THEN {"U16"} ELSE {"U8"}

NextReenter ==
    \/ \E l \in ListenerFns : Listen("main", l[1], l[2])
    \/ \E l \in ListenerFns : CallbackListen(l[1], l[2])
    \/ \E l \in BootstrapFns : \E bytes \in ValuesOf(l[1]) :
          CallbackBootstrap(l[1], bytes, l[2])
    \/ \E c \in Contexts : ListenExit(c)
    \/ \E c \in Producers : \E T \in ReenterTypes(c) : \E bytes \in ValuesOf(T) :
          Send(c, T, bytes)
    \/ \E c \in Contexts : SendCalled(c)
    \/ \E c \in Contexts : SendExit(c)
    \/ \E c \in Contexts : SendRaise(c)
    \/ \E c \in Contexts : Return(c)
    \/ Pop
    \/ PopExit
    \/ WaitForEvent
    \/ Snapshot
    \/ SnapshotExit
    \/ ScanEnd
    \/ ScanSkip
    \/ ScanInvoke
    \/ ScanInvokeEmit
    \/ CallbackReturn

SpecReenter == Init /\ [][NextReenter]_vars

(***************************************************************************)
(* bootstrap against a registry and a backlog that fill up: "main"         *)
(* registers listeners and bootstraps sources whose seed event fits the    *)
(* box or is too large for it, the interrupt sends; enter is not running.  *)
(***************************************************************************)
BootFns == {<<"U16", "emit">>, <<"Big", "stop">>}

NextBoot ==
    \/ \E l \in ListenerFns : Listen("main", l[1], l[2])
    \/ \E l \in BootFns : \E bytes \in ValuesOf(l[1]) :
          Bootstrap("main", l[1], bytes, l[2])
    \/ ListenExit("main")
    \/ \E bytes \in ValuesOf("U8") : Send("irq", "U8", bytes)
    \/ SendCalled("main")
    \/ \E c \in Producers : SendExit(c)
    \/ \E c \in Producers : SendRaise(c)
    \/ \E c \in Producers : Return(c)

SpecBoot == Init /\ [][NextBoot]_vars

(***************************************************************************)
(* A RingBuf<_, RingN> driven by every sequence of push and pop, next to   *)
(* the abstract queue: append at the back, remove at the front, at most    *)
(* RingN elements.                                                         *)
(***************************************************************************)
RingPush(e) ==
    /\ LET r == RingBuf_push(rb, e) IN
        /\ rb' = r.self
        /\ rres' = [op |-> "push", arg |-> e, res |-> r.res]
    /\ IF Len(aq) < RingN
       THEN /\ aq' = Append(aq, e)
            /\ ares' = [op |-> "push", arg |-> e, res |-> Ok(Unit)]
       ELSE /\ aq' = aq
            /\ ares' = [op |-> "push", arg |-> e, res |-> Err(e)]
    /\ UNCHANGED <<evars, svars, bvars, wvars, dvars>>

RingPop ==
    /\ LET r == RingBuf_pop(rb) IN
        /\ rb' = r.self
        /\ rres' = [op |-> "pop", arg |-> 0, res |-> r.res]
    /\ IF aq # <<>>
       THEN /\ aq' = Tail(aq)
            /\ ares' = [op |-> "pop", arg |-> 0, res |-> Some(Head(aq))]
       ELSE /\ aq' = aq
            /\ ares' = [op |-> "pop", arg |-> 0, res |-> None]
    /\ UNCHANGED <<evars, svars, bvars, wvars, dvars>>

NextRing ==
    \/ \E e \in 1..MaxElem : RingPush(e)
    \/ RingPop

SpecRing == Init /\ [][NextRing]_vars

(***************************************************************************)
(* A Stack<_, StackN> driven by every sequence of push, next to the list   *)
(* of the values whose push returned Ok.                                   *)
(***************************************************************************)
StackPush(v) ==
    /\ LET r == Stack_push(st, v) IN
        /\ st' = r.self
        /\ sres' = r.res
        /\ sq' = IF IsOk(r.res) THEN Append(sq, v) ELSE sq
    /\ UNCHANGED <<evars, rvars, bvars, wvars, dvars>>

NextStack == \E v \in 1..MaxElem : StackPush(v)

SpecStack == Init /\ [][NextStack]_vars

(***************************************************************************)
(* boxes.rs driven directly: a Box<bsize> is made from a value, asked for   *)
(* its value with every type, and dropped; a CopyBox<bsize> is made from a  *)
(* value and asked for it with every type, again and again.  The driver     *)
(* works on Boxes or on CopyBoxes.                                         *)
(***************************************************************************)
\* the values of type T: every bit pattern of SizeOf(T) bytes of one bit each
BoxValues(T) == [1..SizeOf(T) -> {0, 1}]

cvars == <<cval, cbox, cres, cinners>>

\* let boxed = Box::<bsize>::new(value)
BoxNew(T, bytes) ==
    /\ IsNone(cval)
    /\ IsNone(bbox)
    /\ LET r == Box_new(Value(T, bytes, 0), bsize) IN
        /\ bval' = Some(Value(T, bytes, 0))
        /\ bbox' = IF IsOk(r) THEN Some(r[2]) ELSE None
        /\ bres' = [op |-> "new", T |-> T, res |-> Some(r)]
        /\ bout' = IF IsErr(r) THEN 1 ELSE 0
    /\ breleased' = 0
    /\ bfails' = 0
    /\ UNCHANGED <<bsize, cvars>>
    /\ UNCHANGED <<evars, rvars, svars, wvars, dvars>>

\* boxed.into_inner::<U>(): Ok(value), and `self` dropped with its destructor
\* removed, or Err(self), the box given back
BoxIntoInner(U) ==
    /\ IsSome(bbox)
    /\ U # Unwrap(bbox).type_id => bfails < MaxExtracts
    /\ LET r == Box_into_inner(Unwrap(bbox), U)
           self == Box_into_inner_self(Unwrap(bbox), U)
       IN  /\ bres' = [op |-> "into_inner", T |-> U, res |-> Some(r)]
           /\ bbox' = IF IsErr(r) THEN Some(r[2]) ELSE None
           /\ bout' = IF IsOk(r) THEN bout + 1 ELSE bout
           /\ bfails' = IF IsErr(r) THEN bfails + 1 ELSE bfails
           /\ breleased' = IF IsSome(self)
                            THEN breleased + Len(Box_drop(Unwrap(self)).ran)
                            ELSE breleased
    /\ UNCHANGED <<bsize, bval, cvars>>
    /\ UNCHANGED <<evars, rvars, svars, wvars, dvars>>

\* drop(boxed)
BoxDrop ==
    /\ IsSome(bbox)
    /\ bres' = [op |-> "drop", T |-> Unwrap(bbox).type_id, res |-> None]
    /\ breleased' = breleased + Len(Box_drop(Unwrap(bbox)).ran)
    /\ bbox' = None
    /\ UNCHANGED <<bsize, bval, bout, bfails, cvars>>
    /\ UNCHANGED <<evars, rvars, svars, wvars, dvars>>

\* let boxed = CopyBox::<bsize>::new(value)
CopyBoxNew(T, bytes) ==
    /\ IsNone(bval)
    /\ cval' = Some([type |-> T, bytes |-> bytes])
    /\ cbox' = CopyBox_new([type |-> T, bytes |-> bytes], bsize)
    /\ cres' = [op |-> "new", T |-> T, res |-> CopyBox_new([type |-> T, bytes |-> bytes], bsize)]
    /\ cinners' = [ok |-> 0, fail |-> 0]
    /\ UNCHANGED <<bsize, bval, bbox, bres, breleased, bout, bfails>>
    /\ UNCHANGED <<evars, rvars, svars, wvars, dvars>>

\* boxed.inner::<U>(); boxed is borrowed and stays
CopyBoxInner(U) ==
    /\ IsSome(cbox)
    /\ LET r == CopyBox_inner(Unwrap(cbox), U) IN
        /\ IF IsSome(r) THEN cinners.ok < MaxExtracts ELSE cinners.fail < MaxExtracts
        /\ cres' = [op |-> "inner", T |-> U, res |-> r]
        /\ cinners' = IF IsSome(r) THEN [cinners EXCEPT !.ok = @ + 1]
                                    ELSE [cinners EXCEPT !.fail = @ + 1]
    /\ UNCHANGED <<bsize, bval, bbox, bres, breleased, bout, bfails, cval, cbox>>
    /\ UNCHANGED <<evars, rvars, svars, wvars, dvars>>

InitBoxes ==
    /\ EventLoop_new(BACKLOG_MAX, LISTENERS_MAX) /\ InitRing /\ InitStack
    /\ \E SIZE \in 0..MaxBoxSize : InitBox(SIZE)
    /\ InitRuntime

NextBoxes ==
    \/ \E T \in BoxTypes : \E bytes \in BoxValues(T) : BoxNew(T, bytes)
    \/ \E U \in BoxTypes : BoxIntoInner(U)
    \/ BoxDrop
    \/ \E T \in BoxTypes : \E bytes \in BoxValues(T) : CopyBoxNew(T, bytes)
    \/ \E U \in BoxTypes : CopyBoxInner(U)

SpecBoxes == InitBoxes /\ [][NextBoxes]_vars

(***************************************************************************)
(* An EventLoop<STACKBOX_SIZE, BACKLOG_MAX, ChainListeners> with room for   *)
(* a chain that has a listener of another type inside; "main" registers    *)
(* the listeners first and sends U8 events afterwards, enter() dispatches   *)
(* them: every listener is registered before every event is sent.          *)
(***************************************************************************)
InitChain ==
    /\ EventLoop_new(BACKLOG_MAX, ChainListeners) /\ InitRing /\ InitStack
    /\ InitBox(STACKBOX_SIZE)
    /\ InitRuntime

NextChain ==
    \/ \E l \in ListenerFns : nsends = 0 /\ Listen("main", l[1], l[2])
    \/ ListenExit("main")
    \/ \E bytes \in ValuesOf("U8") : Send("main", "U8", bytes)
    \/ SendExit("main")
    \/ SendRaise("main")
    \/ Return("main")
    \/ Pop
    \/ PopExit
    \/ WaitForEvent
    \/ Snapshot
    \/ SnapshotExit
    \/ ScanEnd
    \/ ScanSkip
    \/ ScanInvoke

SpecChain == InitChain /\ [][NextChain]_vars

(***************************************************************************)
(* The event loop with the runtime's event and without spurious wakes:     *)
(* enter() blocks in _runtime_waitforevent until an event is pending.      *)
(* The runtime is the rp2040 one (wfe/sev: a raised event stays pending     *)
(* until a wait consumes it) or one that meets the declared contract only   *)
(* for a context that is blocked at the time of the raise.  "main"          *)
(* registers listeners and sends, "irq" sends; the events are U8 and the    *)
(* listeners return at once.  The loop keeps running                       *)
(* whenever it can, and so does every call once it has started; nobody is   *)
(* obliged to start a call, and the calls that are started are finitely    *)
(* many.                                                                   *)
(***************************************************************************)
InitLive ==
    /\ EventLoop_new(BACKLOG_MAX, LISTENERS_MAX) /\ InitRing /\ InitStack
    /\ InitBox(STACKBOX_SIZE)
    /\ signal = FALSE
    /\ latch \in BOOLEAN

\* a step of enter(), the listener it invokes included
LoopStep ==
    \/ Pop
    \/ PopExit
    \/ WaitBlock
    \/ WaitWake
    \/ Snapshot
    \/ SnapshotExit
    \/ ScanEnd
    \/ ScanSkip
    \/ ScanInvoke

\* a step of a listen or send call that has started
OpStep(c) ==
    \/ ListenExit(c)
    \/ SendExit(c)
    \/ SendEvent(c)
    \/ Return(c)

\* "main" registers a listener while the registry has room
NextLive ==
    \/ \E l \in ListenerFns :
          listeners.len < Stack_SIZE(listeners) /\ Listen("main", l[1], l[2])
    \/ \E c \in Producers : \E bytes \in ValuesOf("U8") : Send(c, "U8", bytes)
    \/ \E c \in Producers : OpStep(c)
    \/ LoopStep

Fairness ==
    /\ WF_vars(LoopStep)
    /\ \A c \in Producers : WF_vars(OpStep(c))

SpecLive == InitLive /\ [][NextLive]_vars /\ Fairness

(***************************************************************************)
(* Dispatch: what a pass of enter() does with the event it popped.         *)
(***************************************************************************)
\* a dispatch pass is scanning: the snapshot is taken, the while loop runs
InPass == pc \in {"scan", "callback"}
\* the while loop of the pass is about to end
PassOver == pc = "scan" /\ (IsNone(maybe_event_box) \/ ~iter_has_next)
\* the value that was sent, as the popped box holds it
SentBytes == SubSeq(Unwrap(orig).bytes, 1, SizeOf(Unwrap(orig).type_id))
Matching(j) == iter.items[j].type_id = Unwrap(orig).type_id
Invoked(j) == \E n \in DOMAIN calls : calls[n].idx = j
\* an invoked listener at a position before j returned None
EndedBefore(j) == \E n \in DOMAIN calls : calls[n].idx < j /\ IsNone(calls[n].out)
ChainEnded == \E n \in DOMAIN calls : IsNone(calls[n].out)
FirstOfType(j) == \A k \in 1..(j - 1) : iter.items[k].type_id # iter.items[j].type_id

\* C1: for the popped event the registry is scanned in registration order: among
\* the listeners the scan has passed, exactly those of the event's type that no
\* earlier None has cut off were invoked, in registration order; the scan goes on
\* (the event is still there) until an invoked listener returned None or the
\* registry is exhausted, so a listener of another type neither ends the scan nor
\* consumes the event.
C1_ScanInvokesEveryMatching ==
    InPass =>
        /\ \A j \in 1..iter.pos : Invoked(j) <=> (Matching(j) /\ ~EndedBefore(j))
        /\ \A n \in 1..(Len(calls) - 1) : calls[n].idx < calls[n + 1].idx
        /\ (pc = "scan" /\ IsNone(maybe_event_box)) => ChainEnded

\* C2: chaining: the first invoked listener gets the event; when an invoked
\* listener returns Some(e'), the next registered listener of the type is invoked
\* with exactly e' (so the pass does not end while such a listener is left); when
\* it returns None no later listener is invoked.
C2_Chaining ==
    InPass =>
        /\ \A n \in 1..(Len(calls) - 1) :
              /\ IsSome(calls[n].out)
              /\ calls[n + 1].arg = Unwrap(calls[n].out)
        /\ (PassOver /\ calls # <<>> /\ IsSome(calls[Len(calls)].out)) =>
              \A j \in (calls[Len(calls)].idx + 1)..Len(iter.items) : ~Matching(j)

\* C3: a listener A registered for type T before an event e of type T is sent is
\* invoked exactly once for e, with a value equal to e, by the pass that
\* dispatches e (A is taken to be the first listener of its type, which no
\* earlier listener can cut off); and when e was the last event sent, the backlog
\* is empty once e is dispatched.
C3_ListenThenSend ==
    PassOver =>
        /\ \A j \in 1..Len(iter.items) :
              (Matching(j) /\ FirstOfType(j)) =>
                  /\ Cardinality({n \in DOMAIN calls : calls[n].idx = j}) = 1
                  /\ \A n \in DOMAIN calls : calls[n].idx = j => calls[n].arg = SentBytes
        /\ Unwrap(orig).seq = npushed => \A i \in DOMAIN events.buf : IsNone(events.buf[i])

\* C4: after bootstrap(event, callback) has returned Ok, the pass that dispatches
\* the seed event invokes callback (which no earlier listener of its type can cut
\* off when it is the first of its type), whatever listeners of other types were
\* registered before it and whether or not anybody else sends.
C4_BootstrapInvokesCallback ==
    (/\ PassOver
     /\ \A c \in Contexts : op[c].kind # "bootstrap"
     /\ Unwrap(orig).ghost.seed > 0
     /\ FirstOfType(Unwrap(orig).ghost.seed))
        => Invoked(Unwrap(orig).ghost.seed)

(***************************************************************************)
(* The backlog under concurrent producers.                                 *)
(***************************************************************************)
BacklogSIZE == RingBuf_SIZE(events)
\* the slot that holds the i-th oldest pending event (i = 0 for the oldest)
Pending(i) == events.buf[(events.tail + i) % BacklogSIZE]
\* the value a send call was given / the value a box unwraps to
SentBy(c) == Unwrap(op[c].event)
Unboxed(box) == Box_into_inner(box, box.type_id)[2]

\* C5: whatever the interleaving of the sends of the contexts with each other and
\* with the loop's pop, the backlog holds exactly the boxes pushed successfully
\* and not yet popped, each whole and in one slot (the pushes npopped+1..npushed,
\* oldest at the read cursor, every other slot empty): none is lost, overwritten
\* or left behind by its pop.  A send that succeeded has its event, unchanged, in
\* the slot of the latest push; a send that failed holds its event, unchanged, to
\* give it back.
C5_SendsAreAtomic ==
    /\ npushed - npopped \in 0..BacklogSIZE
    /\ \A i \in 0..(BacklogSIZE - 1) :
          IF i < npushed - npopped
          THEN IsSome(Pending(i)) /\ Unwrap(Pending(i)).seq = npopped + 1 + i
          ELSE IsNone(Pending(i))
    /\ events.head = (events.tail + (npushed - npopped)) % BacklogSIZE
    /\ \A c \in Contexts :
          op[c].pc = "send_exit" =>
              IF IsOk(Unwrap(op[c].res))
              THEN \E i \in DOMAIN events.buf :
                      /\ IsSome(events.buf[i])
                      /\ Unwrap(events.buf[i]).seq = npushed
                      /\ Unboxed(Unwrap(events.buf[i])) = SentBy(c)
              ELSE Unboxed(Unwrap(op[c].res)[2]) = SentBy(c)

\* the interrupt has pushed and not yet raised, "main" is inside its own push,
\* and the loop has already popped an event
C5_Witness ==
    /\ op["irq"].pc = "raise"
    /\ op["main"].pc = "send_exit"
    /\ npopped >= 1
    /\ npushed - npopped = BacklogSIZE

\* a step of context c that ends a call with Err
Rejected(c) == op[c].pc # "return" /\ op'[c].pc = "return"
\* a step in which the push of context c is refused
PushRefused(c, cell) ==
    /\ op[c].pc \in {"idle", "send"}
    /\ op'[c].pc = cell
    /\ IsErr(Unwrap(op'[c].res))

\* C6: capacity exhaustion changes nothing and gives the value back.  A send whose
\* push is refused (backlog full) or whose event does not fit the box leaves the
\* backlog (contents and cursors) and the wake count as they are, up to and
\* including its return, and returns Err with the event it was given; a listen
\* whose push is refused (registry full) leaves the registry as it is and returns
\* Err with its callback; no such step panics or moves the dispatch loop.
C6_StepKeepsState ==
    \A c \in Contexts :
        /\ PushRefused(c, "send_exit") =>
              /\ events' = events /\ raised' = raised
              /\ ~panicked' /\ pc' = pc
        /\ PushRefused(c, "listen_exit") =>
              /\ listeners' = listeners
              /\ ~panicked' /\ pc' = pc
        /\ Rejected(c) =>
              /\ events' = events /\ raised' = raised /\ listeners' = listeners
              /\ ~panicked' /\ pc' = pc
              /\ op'[c].res = Some(Err(IF op'[c].kind = "listen"
                                       THEN Unwrap(op'[c].cb) ELSE Unwrap(op'[c].event)))
        /\ (op[c].pc = "return" /\ op'[c] # op[c]) =>
              /\ op'[c] = Idle
              /\ events' = events /\ raised' = raised /\ listeners' = listeners
              /\ ~panicked' /\ pc' = pc

C6_CapacityExhaustion == [][C6_StepKeepsState]_vars

\* listen is returning Err from a full registry while the interrupt's send is
\* returning Err from a full backlog, and the loop goes on
C6_Witness ==
    /\ op["main"].pc = "return" /\ op["main"].kind = "listen"
    /\ listeners.len = Stack_SIZE(listeners)
    /\ op["irq"].pc = "return" /\ op["irq"].kind = "send"
    /\ npushed - npopped = BacklogSIZE
    /\ pc = "pop"

\* C7: the loop pops the events in the order in which their pushes succeeded,
\* whichever context pushed them: the k-th successful pop yields the box of the
\* k-th successful push.
C7_PopsInPushOrder == IsSome(orig) => Unwrap(orig).seq = npopped

\* the loop holds the event of the last slot, the read cursor has wrapped to slot
\* 0, and a later event, pushed after the write cursor wrapped, is pending there
C7_Witness ==
    /\ IsSome(orig)
    /\ npopped = BacklogSIZE
    /\ events.tail = 0
    /\ npushed > npopped

(***************************************************************************)
(* RingBuf against the abstract queue.                                     *)
(***************************************************************************)
RingCount(self) == Cardinality({i \in DOMAIN self.buf : IsSome(self.buf[i])})
\* the stored elements from the read cursor on, wrapping; 0 marks an empty slot
RingContents(self) ==
    [i \in 1..RingCount(self) |->
        LET slot == self.buf[(self.tail + i - 1) % RingBuf_SIZE(self)] IN
        IF IsSome(slot) THEN Unwrap(slot) ELSE 0]

\* C8: RingBuf is a bounded FIFO queue of capacity N: after every sequence of
\* pushes and pops the last operation returned what the abstract queue returned
\* (pop: the oldest element, None exactly when nothing is stored), the stored
\* elements read from the read cursor on are the abstract queue, and both cursors
\* stay in 0..N-1 with the write cursor Len(queue) slots ahead modulo N.
C8_RingBufIsQueue ==
    /\ rres = ares
    /\ RingContents(rb) = aq
    /\ rb.head \in 0..(RingN - 1) /\ rb.tail \in 0..(RingN - 1)
    /\ rb.head = (rb.tail + Len(aq)) % RingN

\* a pop has just returned an element and wrapped the read cursor to slot 0 while
\* elements pushed after the write cursor wrapped are still stored
C8_Witness ==
    /\ rres.op = "pop" /\ IsSome(rres.res)
    /\ rb.tail = 0
    /\ aq # <<>>

\* C9: the usable capacity is N exactly: in every reachable state a push fails if
\* and only if N elements are stored, a failed push returns its element and
\* leaves the buffer as it is, a successful one stores one element more.
C9_CapacityIsN ==
    /\ \A e \in 1..MaxElem :
          LET r == RingBuf_push(rb, e) IN
          IF RingCount(rb) = RingN
          THEN r.res = Err(e) /\ r.self = rb
          ELSE r.res = Ok(Unit) /\ RingCount(r.self) = RingCount(rb) + 1
    /\ (rres.op = "push" /\ IsErr(rres.res)) => RingCount(rb) = RingN
    /\ (rres.op = "push" /\ IsOk(rres.res)) => RingCount(rb) >= 1

\* the buffer was filled, one element was popped, one more push succeeded and the
\* push after that has just failed
C9_Witness ==
    /\ rres.op = "push" /\ IsErr(rres.res)
    /\ rb.tail = 1
    /\ RingCount(rb) = RingN

InScopeOf(c) ==
    (IF op[c].pc = "send_exit" THEN {"events"} ELSE {})
    \cup (IF op[c].pc = "listen_exit" THEN {"listeners"} ELSE {})
    \cup (IF c = "loop" /\ pc = "pop_exit" THEN {"events"} ELSE {})
    \cup (IF c = "loop" /\ pc = "snapshot_exit" THEN {"listeners"} ELSE {})

\* C11: no context ever holds the backlog cell and the registry cell together:
\* listen, bootstrap, send, the send of a listener and every step of enter hold
\* at most one cell, the one of the scoped access they are inside, and have left
\* it before they enter the next.
C11_NeverBothCells ==
    \A c \in Contexts :
        /\ Cardinality(held[c]) <= 1
        /\ held[c] = InScopeOf(c)

\* bootstrap has left the registry cell and is inside the backlog cell, while the
\* loop is between its pop (backlog cell) and its snapshot (registry cell)
C11_Witness ==
    /\ op["main"].kind = "bootstrap" /\ op["main"].pc = "send_exit"
    /\ held["main"] = {"events"}
    /\ pc = "snapshot" /\ held["loop"] = {}

\* C12: enter calls wait_for_event only directly after a pop that returned empty,
\* and after every return from wait_for_event the next thing it does is pop the
\* backlog again; a pop that returned empty leads to nothing but the wait, so a
\* spurious wake with an empty backlog invokes no listener and ends in the wait
\* again; and a listener is invoked only with an event popped in this pass.
C12_StepWaitsAndRechecks ==
    /\ (pc # "wait" /\ pc' = "wait") =>
          /\ pc = "pop_exit" /\ IsNone(maybe_event_box) /\ IsNone(orig)
          /\ calls' = calls /\ events' = events
    /\ (pc = "wait" /\ pc' # "wait") =>
          /\ pc' = "pop"
          /\ calls' = calls /\ iter' = iter /\ maybe_event_box' = maybe_event_box
          /\ events' = events /\ listeners' = listeners /\ op'["loop"] = op["loop"]
    /\ (pc = "pop" /\ pc' # "pop") =>
          /\ pc' = "pop_exit"
          /\ maybe_event_box' = RingBuf_pop(events).res
          /\ calls' = calls
    /\ (pc = "pop_exit" /\ IsNone(maybe_event_box) /\ pc' # pc) => pc' = "wait"
    /\ calls' # calls /\ calls' # <<>> =>
          /\ pc = "scan" /\ IsSome(orig) /\ Unwrap(orig).seq = npopped
          /\ IsSome(maybe_event_box)

C12_WaitOnlyAfterEmptyPop == [][C12_StepWaitsAndRechecks]_vars

\* the loop has dispatched an event, found the backlog empty and waits again,
\* with no send in progress: every return of the wait from here on is spurious
C12_Witness ==
    /\ pc = "wait"
    /\ npopped >= 1 /\ npushed = npopped
    /\ \A c \in Contexts : op[c].pc = "idle"

(***************************************************************************)
(* Boxes.                                                                  *)
(***************************************************************************)
\* the value given to Box::new, as a destructor sees it (no ghost)
Released(value) == [type |-> value.type, bytes |-> value.bytes, ghost |-> Unit]

\* C13: a Box releases its value exactly once over its life.  While the box is
\* alive nothing is released and its destructor is in place: dropping it now
\* would run the destructor once, on the value it was made from, and leave none
\* to run again.  A box dropped unconsumed has run it exactly once; a box
\* consumed by a successful into_inner has handed the value out and run no
\* destructor; a failed into_inner has neither run nor removed it.  Once the
\* box is gone the value was either released once or handed out once, never both.
C13_ReleasedExactlyOnce ==
    IsSome(bval) =>
        /\ IsSome(bbox) =>
              /\ breleased = 0 /\ bout = 0
              /\ Box_drop(Unwrap(bbox)).ran = <<Released(Unwrap(bval))>>
              /\ Box_drop(Box_drop(Unwrap(bbox)).self).ran = <<>>
        /\ IsNone(bbox) => breleased + bout = 1
        /\ bres.op = "drop" => (breleased = 1 /\ bout = 0)
        /\ (bres.op = "into_inner" /\ IsOk(Unwrap(bres.res))) =>
              (breleased = 0 /\ bout = 1)
        /\ (bres.op = "into_inner" /\ IsErr(Unwrap(bres.res))) =>
              /\ breleased = 0 /\ bout = 0
              /\ IsSome(bbox) /\ IsSome(Unwrap(bbox).drop)

\* a box was asked for its value with a wrong type, then dropped unconsumed
C13_Witness ==
    /\ bres.op = "drop"
    /\ bfails >= 1
    /\ breleased = 1

\* C14: round trip.  A value whose type fits is boxed, and into_inner with its
\* type returns a value equal to it; a CopyBox made from it returns a value equal
\* to it from inner with its type, at the first call and at every later one.
C14_RoundTrip ==
    /\ (bres.op = "new" /\ SizeOf(bres.T) <= bsize) =>
          /\ IsSome(bbox)
          /\ Box_into_inner(Unwrap(bbox), bres.T) = Ok(Unwrap(bval))
    /\ (bres.op = "into_inner" /\ bres.T = Unwrap(bval).type) =>
          bres.res = Some(Ok(Unwrap(bval)))
    /\ (cres.op = "new" /\ SizeOf(cres.T) <= bsize) => IsSome(cbox)
    /\ (cres.op = "inner" /\ cres.T = Unwrap(cval).type) => cres.res = cval
    /\ IsSome(cbox) => CopyBox_inner(Unwrap(cbox), Unwrap(cval).type) = cval

\* a CopyBox larger than its value has returned the value MaxExtracts times
C14_Witness ==
    /\ cres.op = "inner" /\ IsSome(cres.res)
    /\ cinners.ok = MaxExtracts
    /\ SizeOf(cres.T) >= 1 /\ SizeOf(cres.T) < bsize

C16_NewSucceedsIffFits ==
    /\ bres.op = "new" =>
          /\ IsOk(Unwrap(bres.res)) <=> SizeOf(bres.T) <= bsize
          /\ IsOk(Unwrap(bres.res)) <=> IsSome(bbox)
          /\ IsErr(Unwrap(bres.res)) => Unwrap(bres.res) = Err(Unwrap(bval))
    /\ cres.op = "new" =>
          /\ IsSome(cres.res) <=> SizeOf(cres.T) <= bsize
          /\ cbox = cres.res
    /\ IsSome(bbox) =>
          /\ SizeOf(Unwrap(bbox).type_id) <= bsize
          /\ Len(Unwrap(bbox).bytes) = bsize
    /\ IsSome(cbox) =>
          /\ SizeOf(Unwrap(cbox).type_id) <= bsize
          /\ Len(Unwrap(cbox).bytes) = bsize

\* a value of exactly SIZE bytes has been boxed
C16_Witness ==
    /\ bres.op = "new" /\ IsOk(Unwrap(bres.res))
    /\ SizeOf(bres.T) = bsize
    /\ bsize >= 1

(***************************************************************************)
(* Wake-up.                                                                *)
(***************************************************************************)
\* the k-th event pushed has been popped and its scan of the registry has begun
Dispatching(k) ==
    \/ npopped > k
    \/ npopped = k /\ pc \notin {"pop_exit", "snapshot", "snapshot_exit"}

\* C17 as stated: every event whose push succeeded is eventually popped and
\* dispatched, with a fair loop, listeners that return, no spurious wake and a
\* raise that need only wake a context blocked in the wait.
C17_EveryEventDispatched ==
    \A k \in 1..MaxSends : (npushed >= k) ~> Dispatching(k)

\* C17 amended: the same, provided the runtime keeps a raised event pending until
\* a wait consumes it (sev/wfe); then a send that completes between the empty
\* pop and the wait does not leave the loop blocked.
C17_EveryEventDispatchedWithLatch ==
    \A k \in 1..MaxSends : (latch /\ npushed >= k) ~> Dispatching(k)

\* the pop returned empty, a send has since pushed, raised and returned, and the
\* loop has called the wait with the event pending
C17_Witness ==
    /\ latch
    /\ pc = "blocked" /\ signal
    /\ npushed > npopped
    /\ \A c \in Contexts : op[c].pc = "idle"

\* a send whose push has succeeded and whose _runtime_sendevent is still to come
RaiseDue(c) ==
    \/ op[c].pc = "raise"
    \/ op[c].pc = "send_exit" /\ IsOk(Unwrap(op[c].res))

\* one step of the program, as C18 constrains it
C18_StepRaisesAfterPush ==
    /\ raised' # raised =>
           /\ raised' = raised + 1
           /\ \E c \in Contexts :
                  /\ op[c].pc = "raise"
                  /\ op'[c] = Idle
                  /\ held[c] = {}
                  /\ \A d \in Contexts \ {c} : op'[d] = op[d]
           /\ events' = events
           /\ npushed' = npushed
    /\ \A c \in Contexts :
           /\ (op[c].pc # "raise" /\ op'[c].pc = "raise") =>
                  /\ op[c].pc = "send_exit"
                  /\ IsOk(Unwrap(op[c].res))
                  /\ "events" \in held[c]
                  /\ held'[c] = {}
           /\ (op[c].pc = "raise" /\ op'[c] # op[c]) =>
                  /\ raised' = raised + 1
                  /\ op'[c] = Idle
           /\ (op[c].pc = "send_exit" /\ IsErr(Unwrap(op[c].res)) /\ op'[c] # op[c]) =>
                  /\ op'[c].pc \in {"return", "idle"}
                  /\ raised' = raised

\* C18: send calls _runtime_sendevent once for every send whose push succeeded,
\* after the push and after its scope has ended, and never for a send whose push
\* failed: the raises made and the raises still due add up to the pushes made, so
\* every raise has its event behind it in the backlog or already popped.
C18_RaiseOncePerPushedEvent ==
    /\ [](raised + Cardinality({c \in Contexts : RaiseDue(c)}) = npushed)
    /\ [](raised <= npopped + RingCount(events))
    /\ [][C18_StepRaisesAfterPush]_vars

\* a raise is due for an event that the loop has already popped
C18_Witness ==
    /\ op["irq"].pc = "raise"
    /\ held["irq"] = {}
    /\ npushed >= 1
    /\ npopped = npushed
    /\ raised = npushed - 1

\* the registry as a scan that starts now would see it
Registered == Stack_into_iter(listeners)

\* one step of the program, as C19 constrains it
C19_StepKeepsSnapshot ==
    /\ (pc = "snapshot" /\ pc' # pc) => iter' = [items |-> Registered, pos |-> 0]
    /\ (InPass /\ InPass') => iter'.items = iter.items
    /\ (InPass /\ listeners' # listeners) =>
           /\ iter' = iter
           /\ calls' = calls
           /\ maybe_event_box' = maybe_event_box
           /\ pc' = pc
    /\ Len(calls') > Len(calls) =>
           /\ calls'[Len(calls')].idx = iter.pos + 1
           /\ iter.pos + 1 <= Len(iter.items)
           /\ iter.items[iter.pos + 1].type_id = Unwrap(maybe_event_box).type_id

\* C19: the scan for one event runs over the copy of the registry made when the
\* scan started: a listen that completes during the scan changes neither the
\* listeners the scan goes through nor the invocations made, the copy stays the
\* front of the growing registry, and the copy made by any later scan holds every
\* listener registered by then.
C19_ScanOverSnapshot ==
    /\ [](InPass => /\ Len(iter.items) <= Len(Registered)
                    /\ iter.items = SubSeq(Registered, 1, Len(iter.items)))
    /\ [][C19_StepKeepsSnapshot]_vars

\* a listen has completed while the scan was past its first listener
C19_Witness ==
    /\ pc = "scan"
    /\ iter.pos >= 1
    /\ calls # <<>>
    /\ Len(Registered) > Len(iter.items)
    /\ op["main"].pc = "idle"

\* one step of the program, as C20 constrains it
C20_StepDestroysOnce ==
    /\ (pc = "scan" /\ pc' = "pop") =>
           /\ (\A j \in 1..Len(iter.items) : ~Matching(j)) =>
                  /\ calls = <<>>
                  /\ ldrops' = 1
           /\ (calls # <<>> /\ IsSome(maybe_event_box) /\ ~iter_has_next) => ldrops' = 1
           /\ (calls # <<>> /\ IsNone(calls[Len(calls)].out)) => ldrops' = 0
           /\ ldrops' <= 1
           /\ maybe_event_box' = None
           /\ events' = events
    /\ Len(calls') > Len(calls) => ldrops' = ldrops
    /\ (InPass /\ events' # events) =>
           /\ npushed' = npushed + 1
           /\ \E c \in Contexts : op[c].pc # "send_exit" /\ op'[c].pc = "send_exit"
    /\ (pc = "pop" /\ pc' # pc) => maybe_event_box' = RingBuf_pop(events).res

\* C20: an event that no registered listener matches is not delivered, and it and
\* the event a listener returned that is still there when the registry is exhausted
\* are destroyed by the loop exactly once; neither is pushed into the backlog again,
\* and the loop goes on with the pop of the next entry. A box handed to a listener
\* is not destroyed by the loop.
C20_UnclaimedDestroyedOnce == [][C20_StepDestroysOnce]_vars

\* the loop has destroyed an event and is back at the pop with an entry waiting
C20_Witness ==
    /\ pc = "pop"
    /\ ldrops = 1
    /\ npopped >= 1
    /\ RingCount(events) >= 1

\* the boxes waiting in the backlog, oldest first
Backlog == RingContents(events)

\* the state of a dispatch pass, as C21 constrains it
C21_PassOfOneEvent ==
    InPass =>
        /\ IsSome(orig)
        /\ \A n \in DOMAIN calls :
              /\ calls[n].idx \in 1..Len(iter.items)
              /\ calls[n].idx <= iter.pos
              /\ n > 1 => /\ calls[n - 1].idx < calls[n].idx
                          /\ IsSome(calls[n - 1].out)
                          /\ calls[n].arg = Unwrap(calls[n - 1].out)
        /\ calls # <<>> => calls[1].arg = SentBytes
        /\ IsSome(maybe_event_box) =>
              IF calls = <<>>
              THEN maybe_event_box = orig
              ELSE /\ IsSome(calls[Len(calls)].out)
                   /\ Unboxed(Unwrap(maybe_event_box)).bytes = Unwrap(calls[Len(calls)].out)
        /\ \A i \in DOMAIN Backlog : Backlog[i].seq > Unwrap(orig).seq

\* one step of the program, as C21 constrains it
C21_StepPopsOnce ==
    /\ npopped' # npopped =>
           /\ pc = "pop" /\ pc' = "pop_exit"
           /\ npopped' = npopped + 1
           /\ orig' = Some(Backlog[1])
           /\ \A i \in 2..Len(Backlog) : Backlog[i].seq > Backlog[1].seq
    /\ (InPass /\ InPass') => orig' = orig
    /\ (InPass /\ npushed' # npushed) =>
           /\ Len(RingContents(events')) = Len(Backlog) + 1
           /\ \A i \in DOMAIN Backlog : RingContents(events')[i] = Backlog[i]
           /\ RingContents(events')[Len(Backlog) + 1].seq = npushed'
           /\ maybe_event_box' = maybe_event_box
           /\ calls' = calls
           /\ iter' = iter

\* C21: a dispatch pass pops one event and invokes no listener of its registry
\* copy twice for it; every invocation of the pass is handed the popped event or
\* what the invocation before it returned.  An event pushed while the pass is in
\* progress, by another context or by the listener being invoked, goes behind the
\* events already waiting, is handed to nobody in this pass, and is popped by a
\* later pass after all of those.
C21_OneEventPerPass == []C21_PassOfOneEvent /\ [][C21_StepPopsOnce]_vars

\* the listener being invoked has pushed an event behind one that was waiting
C21_Witness ==
    /\ pc = "callback"
    /\ op["loop"].pc = "raise"
    /\ calls # <<>>
    /\ Len(Backlog) = 2
    /\ Backlog[2].seq = npushed

\* the while-let is about to call caller: the next listener has the event's tag
CallDue ==
    /\ pc = "scan"
    /\ IsSome(maybe_event_box) /\ iter_has_next
    /\ listener_next.type_id = Box_inner_type_id(Unwrap(maybe_event_box))

\* C22: no expect and no unreachable of send and caller fires.  Whenever enter is
\* about to call caller::<T>, the event box has the tag of T and unwraps to a T,
\* the callback box unwraps to a fn(T) -> Option<T>, and an event the callback
\* returns fits the box again; whenever the backlog has rejected the box of a
\* send, that box unwraps to the type the sender gave.
C22_FatalPathsUnreachable ==
    /\ ~panicked
    /\ CallDue =>
          /\ Unwrap(maybe_event_box).type_id = listener_next.caller
          /\ IsOk(Box_into_inner(Unwrap(maybe_event_box), listener_next.caller))
          /\ IsSome(CopyBox_inner(listener_next.callback_box, FnType(listener_next.caller)))
          /\ ~invocation.panic
          /\ IsSome(invocation.out) =>
                 /\ SizeOf(Unwrap(invocation.out).type) <= STACKBOX_SIZE
                 /\ IsOk(Box_new(Unwrap(invocation.out), STACKBOX_SIZE))
    /\ \A c \in Contexts :
          (op[c].pc = "send_exit" /\ IsErr(Unwrap(op[c].res))) =>
              IsOk(Box_into_inner(Unwrap(op[c].res)[2], SentBy(c).type))

\* the full backlog has rejected the interrupt's send, and a listener has returned
\* an event that was boxed again
C22_Witness ==
    /\ pc = "scan"
    /\ calls # <<>>
    /\ IsSome(maybe_event_box)
    /\ op["irq"].pc = "return"
    /\ ~panicked

\* the cell whose scope the call in progress in context c is inside, if any
CellOf(c) ==
    CASE op[c].pc = "send_exit" -> {"events"}
      [] op[c].pc = "listen_exit" -> {"listeners"}
      [] OTHER -> {}

\* one step of the program, as C23 constrains it
C23_StepEntersFromOutside ==
    \A c \in Contexts :
        (held'[c] # held[c] /\ held'[c] # {}) =>
            /\ held[c] = {}
            /\ Cardinality(held'[c]) = 1

\* C23: enter calls a listener with neither cell held: pop and registry copy have
\* left their scopes.  While the listener runs, the loop's context holds nothing
\* but the cell of the send, listen or bootstrap call the listener is inside, and
\* every scoped access starts with no cell held, so none is nested.
C23_ListenersRunOutsideScopes ==
    /\ [](CallDue => held["loop"] = {})
    /\ [](InPass => held["loop"] = CellOf("loop"))
    /\ [][C23_StepEntersFromOutside]_vars

\* the listener being invoked is inside the scope of its own listen call
C23_Witness ==
    /\ pc = "callback"
    /\ op["loop"].pc = "listen_exit"
    /\ held["loop"] = {"listeners"}
    /\ calls # <<>>

\* context c is inside bootstrap(event, callback)
InBootstrap(c) == op[c].kind = "bootstrap" /\ op[c].pc # "idle"
\* the registry position the listen of c's bootstrap filled; 0: it filled none
RegisteredAt(c) == SentBy(c).ghost.seed
\* the record that the listen of c's bootstrap built
BootListener(c) == EventListener(SentBy(c).type, Unwrap(op[c].cb).bytes[1])

\* a bootstrap call in progress, as C24 constrains it
C24_BootstrapState ==
    \A c \in Contexts :
        InBootstrap(c) =>
            /\ RegisteredAt(c) # 0 =>
                  /\ RegisteredAt(c) <= listeners.len
                  /\ Stack_deref(listeners)[RegisteredAt(c)] = BootListener(c)
            /\ op[c].pc \in {"send", "send_exit", "raise"} => RegisteredAt(c) # 0
            /\ op[c].pc = "return" =>
                  /\ IsErr(Unwrap(op[c].res))
                  /\ Unwrap(op[c].res)[2] = SentBy(c)

\* one step of the program, as C24 constrains it
C24_StepOfBootstrap ==
    \A c \in Contexts :
        /\ (op[c].pc = "idle" /\ InBootstrap(c)') =>
               /\ op'[c].pc = "listen_exit"
               /\ events' = events /\ raised' = raised /\ npushed' = npushed
               /\ IF IsErr(Unwrap(op'[c].res))
                  THEN listeners' = listeners /\ RegisteredAt(c)' = 0
                  ELSE RegisteredAt(c)' = listeners'.len
        /\ (InBootstrap(c) /\ op[c].pc = "listen_exit" /\ op'[c] # op[c]) =>
               /\ events' = events /\ raised' = raised /\ npushed' = npushed
               /\ listeners' = listeners
               /\ op'[c].pc = IF IsErr(Unwrap(op[c].res)) THEN "return" ELSE "send"
        /\ (InBootstrap(c) /\ op[c].pc \in {"send", "send_exit"} /\ op'[c].pc = "return") =>
               /\ listeners' = listeners
               /\ raised' = raised
               /\ npushed' = npushed
               /\ op[c].pc = "send" => SizeOf(SentBy(c).type) > STACKBOX_SIZE
               /\ op[c].pc = "send_exit" => npushed - npopped = BacklogSIZE

\* C24: bootstrap is listen, then send.  With a full registry it returns Err(event)
\* with the registry as it was and without a push or a wake signal of its own.
\* With a successful registration and a failed send (event too large for the box,
\* or backlog full) it returns Err(event) as well, and the listener it registered
\* stays in the registry.
C24_BootstrapNotAtomic == []C24_BootstrapState /\ [][C24_StepOfBootstrap]_vars

\* bootstrap is about to return Err(event) and its listener is registered
C24_Witness ==
    /\ InBootstrap("main")
    /\ op["main"].pc = "return"
    /\ RegisteredAt("main") # 0
    /\ Stack_deref(listeners)[RegisteredAt("main")] = BootListener("main")
    /\ SentBy("main").type = "U16"
    /\ npushed - npopped = BacklogSIZE

====
